---- MODULE Spec2Model ----
(***************************************************************************)
(* ChartPatchBuilder (metadata-ingestion/src/datahub/specific/chart.py).   *)
(*                                                                         *)
(* A builder accumulates JSON-patch operations for one chart entity.       *)
(* Every public method of chart.py is an operator from the accumulator and *)
(* the call's arguments to the call's outcome (the new accumulator, the    *)
(* exception raised, the value returned); the actions apply one call to    *)
(* the builder.  The base class MetadataPatchProposal and the two helper   *)
(* classes are not part of chart.py; they are modelled from the design     *)
(* document.                                                               *)
(*                                                                         *)
(* Strings are sequences of tokens: "/" and "~" are tokens of their own,   *)
(* so that path formatting and the segment codec act on them as the code   *)
(* does on characters.                                                     *)
(***************************************************************************)
EXTENDS Integers, Sequences, FiniteSets, TLC

VARIABLES pc, urn, patches, calls, before, raised, returned, lastBuild, prevBuild

vars == <<pc, urn, patches, calls, before, raised, returned, lastBuild, prevBuild>>

(* ------------------------------ bounds -------------------------------- *)

\* Mutation/build calls made on one builder under Spec.
MaxCalls == 2

\* Calls made on one builder under SpecScenario.
ScenarioCalls == 4

(* --------------------------- Python values ---------------------------- *)

PyNone == [t |-> "None"]

PyStr(s) == [t |-> "str", s |-> s]

PyInt(n) == [t |-> "int", n |-> n]

PyList(items) == [t |-> "list", items |-> items]

PyDict(items) == [t |-> "dict", items |-> items]

\* bool(v) as the `if v:` / `assert v` tests of chart.py evaluate it
Truthy(v) ==
    CASE v.t = "None" -> FALSE
      [] v.t = "str"  -> v.s # <<>>
      [] v.t = "int"  -> v.n # 0
      [] v.t = "list" -> v.items # <<>>
      [] v.t = "dict" -> v.items # <<>>
      [] OTHER        -> TRUE

UrnObj(entity_type, id) == [t |-> "Urn", entity_type |-> entity_type, id |-> id]

\* the string form "urn:li:<type>:<id>"
UrnStr(entity_type, id) == <<"urn:li:", entity_type, ":">> \o id

\* str(x) for a str or a Urn object
str(x) ==
    CASE x.t = "str" -> x.s
      [] x.t = "Urn" -> UrnStr(x.entity_type, x.id)
      [] OTHER       -> <<"<object>">>

AuditStamp(time) == [t |-> "AuditStamp", time |-> time, actor |-> UrnStr("corpuser", <<"datahub">>)]

Edge(destinationUrn, created, lastModified) ==
    [t |-> "Edge", destinationUrn |-> destinationUrn,
     created |-> created, lastModified |-> lastModified]

Tag(tag) == [t |-> "Tag", tag |-> tag]

Term(u) == [t |-> "Term", urn |-> u]

Owner(owner, type) == [t |-> "Owner", owner |-> owner, type |-> type]

ChangeAuditStamps(time) == [t |-> "ChangeAuditStamps", created |-> AuditStamp(time), lastModified |-> AuditStamp(time)]

ChartInfo_ASPECT_NAME == "chartInfo"

GlobalTags_ASPECT_NAME == "globalTags"

GlossaryTerms_ASPECT_NAME == "glossaryTerms"

Ownership_ASPECT_NAME == "ownership"

AspectNames ==
    {ChartInfo_ASPECT_NAME, GlobalTags_ASPECT_NAME, GlossaryTerms_ASPECT_NAME,
     Ownership_ASPECT_NAME}

(* ------------- MetadataPatchProposal (the shared engine) -------------- *)

\* Path Segment Codec: "~" becomes "~0" and "/" becomes "~1"
RECURSIVE quote(_)
quote(s) ==
    IF s = <<>> THEN <<>>
    ELSE LET c == Head(s)
             q == IF c = "~" THEN <<"~", "0">>
                  ELSE IF c = "/" THEN <<"~", "1">>
                  ELSE <<c>>
         IN  q \o quote(Tail(s))

\* the type-qualifier of an identifier string, "" when it is no urn
typeQualifier(s) ==
    IF Len(s) >= 4 /\ s[1] = "urn:li:" /\ s[3] = ":" THEN s[2] ELSE ""

startswith(s, prefix) ==
    Len(s) >= Len(prefix) /\ SubSeq(s, 1, Len(prefix)) = prefix

\* a call's outcome: the accumulator after it, the exception, the return value
Ok(acc) == [patches |-> acc, raised |-> "none", returned |-> "self"]

Raise(acc, exc) == [patches |-> acc, raised |-> exc, returned |-> "nothing"]

_add_patch(acc, aspect_name, op, path, value) ==
    Append(acc, [aspectName |-> aspect_name, op |-> op, path |-> path, value |-> value])

_mint_auditstamp(now) == AuditStamp(now)

\* the exception _ensure_urn_type raises for these edges, "none" when it passes
RECURSIVE _ensure_urn_type(_, _)
_ensure_urn_type(entity_type, edges) ==
    IF edges = <<>> THEN "none"
    ELSE IF typeQualifier(Head(edges).destinationUrn) # entity_type
         THEN "InvalidUrnTypeError"
         ELSE _ensure_urn_type(entity_type, Tail(edges))

\* the constructed base object, or the exception of the construction
MetadataPatchProposal_init(u) ==
    IF typeQualifier(u) # "chart"
    THEN [raised |-> "InvalidIdentifierError", urn |-> <<>>, patches |-> <<>>]
    ELSE [raised |-> "none", urn |-> u, patches |-> <<>>]

\* one more operation filed under its aspect, aspects in first-use order
AddToGroups(groups, p) ==
    LET o == [op |-> p.op, path |-> p.path, value |-> p.value]
    IN  IF \E i \in 1..Len(groups) : groups[i].aspectName = p.aspectName
        THEN [i \in 1..Len(groups) |->
                 IF groups[i].aspectName = p.aspectName
                 THEN [groups[i] EXCEPT !.ops = Append(@, o)]
                 ELSE groups[i]]
        ELSE Append(groups, [aspectName |-> p.aspectName, ops |-> <<o>>])

RECURSIVE materialize(_)
materialize(acc) ==
    IF acc = <<>> THEN <<>>
    ELSE AddToGroups(materialize(SubSeq(acc, 1, Len(acc) - 1)), acc[Len(acc)])

build(u, acc) ==
    [entityId |-> u, aspectPatches |-> materialize(acc),
     systemMetadata |-> PyNone, auditHeader |-> PyNone]

TagUrn_create_from_id(id) == UrnObj("tag", id)

(* ------------------------ sub-document helpers ------------------------ *)

OwnershipPatchHelper_add_owner(acc, owner) ==
    _add_patch(acc, Ownership_ASPECT_NAME, "add",
               <<"/", "owners", "/">> \o quote(owner.owner) \o <<"/">> \o quote(owner.type),
               owner)

OwnershipPatchHelper_remove_owner(acc, owner, owner_type) ==
    _add_patch(acc, Ownership_ASPECT_NAME, "remove",
               <<"/", "owners", "/">> \o quote(owner.s)
                  \o (IF Truthy(owner_type) THEN <<"/">> \o quote(owner_type.s) ELSE <<>>),
               PyDict(<<>>))

OwnershipPatchHelper_set_owners(acc, owners) ==
    _add_patch(acc, Ownership_ASPECT_NAME, "add", <<"/", "owners">>, owners)

CustomPropertiesPatchHelper_add_property(acc, aspect_name, key, value) ==
    _add_patch(acc, aspect_name, "add",
               <<"/", "customProperties", "/">> \o quote(key.s), value)

CustomPropertiesPatchHelper_remove_property(acc, aspect_name, key) ==
    _add_patch(acc, aspect_name, "remove",
               <<"/", "customProperties", "/">> \o quote(key.s), PyDict(<<>>))

(* ------------------- ChartPatchBuilder (chart.py) --------------------- *)

\* the two helpers __init__ creates: they hold the parent and an aspect name
custom_properties_patch_helper == [aspect_name |-> ChartInfo_ASPECT_NAME]

\* mutant: the constructor does not let the base class reject the identifier
ChartPatchBuilder_init_unchecked(u) ==
    [live |-> TRUE, raised |-> "none", urn |-> u, patches |-> <<>>]

ChartPatchBuilder_init(u) ==
    LET base == MetadataPatchProposal_init(u)
    IN  IF base.raised # "none"
        THEN [live |-> FALSE, raised |-> base.raised, urn |-> <<>>, patches |-> <<>>]
        ELSE [live |-> TRUE, raised |-> "none", urn |-> base.urn, patches |-> base.patches]

add_owner(acc, owner) == Ok(OwnershipPatchHelper_add_owner(acc, owner))

remove_owner(acc, owner, owner_type) ==
    Ok(OwnershipPatchHelper_remove_owner(acc, owner, owner_type))

set_owners(acc, owners) == Ok(OwnershipPatchHelper_set_owners(acc, owners))

\* mutant: the edge is appended without the type check of its destination
add_input_edge_unchecked(acc, input, now1, now2) ==
    IF input.t \notin {"Edge", "Urn", "str"}
    THEN Raise(acc, "UnboundLocalError")
    ELSE LET input_urn == IF input.t = "Edge" THEN input.destinationUrn ELSE str(input)
         IN  Ok(_add_patch(acc, ChartInfo_ASPECT_NAME, "add",
                           <<"/", "inputEdges", "/">> \o quote(input_urn),
                           PyStr(input_urn)))

add_input_edge(acc, input, now1, now2) ==
    IF input.t \notin {"Edge", "Urn", "str"}
    THEN Raise(acc, "UnboundLocalError")
    ELSE LET input_urn  == IF input.t = "Edge" THEN input.destinationUrn ELSE str(input)
             input_edge == IF input.t = "Edge" THEN input
                           ELSE Edge(input_urn, _mint_auditstamp(now1), _mint_auditstamp(now2))
             exc        == _ensure_urn_type("dataset", <<input_edge>>)
         IN  IF exc # "none" THEN Raise(acc, exc)
             ELSE Ok(_add_patch(acc, ChartInfo_ASPECT_NAME, "add",
                                <<"/", "inputEdges", "/">> \o quote(input_urn),
                                PyStr(input_urn)))

remove_input_edge(acc, input) ==
    Ok(_add_patch(acc, ChartInfo_ASPECT_NAME, "remove",
                  <<"/", "inputEdges", "/">> \o quote(str(input)), PyDict(<<>>)))

\* mutant: an empty list is skipped, as the optional setters skip an empty value
set_input_edges_skip_empty(acc, inputs) ==
    IF Truthy(inputs)
    THEN Ok(_add_patch(acc, ChartInfo_ASPECT_NAME, "add", <<"/", "inputEdges">>, inputs))
    ELSE Ok(acc)

set_input_edges(acc, inputs) ==
    Ok(_add_patch(acc, ChartInfo_ASPECT_NAME, "add", <<"/", "inputEdges">>, inputs))

add_tag(acc, tag) ==
    Ok(_add_patch(acc, GlobalTags_ASPECT_NAME, "add", <<"/", "tags", "/">> \o tag.tag, tag))

remove_tag(acc, tag) ==
    LET tg == IF tag.t = "str" /\ ~startswith(tag.s, <<"urn:li:", "tag", ":">>)
              THEN TagUrn_create_from_id(tag.s) ELSE tag
    IN  Ok(_add_patch(acc, GlobalTags_ASPECT_NAME, "remove",
                      <<"/", "tags", "/">> \o str(tg), PyDict(<<>>)))

add_term(acc, term) ==
    Ok(_add_patch(acc, GlossaryTerms_ASPECT_NAME, "add",
                  <<"/", "terms", "/">> \o term.urn, term))

remove_term(acc, term) ==
    LET tm == IF term.t = "str" /\ ~startswith(term.s, <<"urn:li:", "glossaryTerm", ":">>)
              THEN PyStr(<<"urn:li:", "glossaryTerm", ":">> \o term.s) ELSE term
    IN  Ok(_add_patch(acc, GlossaryTerms_ASPECT_NAME, "remove",
                      <<"/", "terms", "/">> \o str(tm), PyDict(<<>>)))

set_custom_properties(acc, custom_properties) ==
    Ok(_add_patch(acc, ChartInfo_ASPECT_NAME, "add", <<"/", "customProperties">>,
                  custom_properties))

add_custom_property(acc, key, value) ==
    Ok(CustomPropertiesPatchHelper_add_property(
           acc, custom_properties_patch_helper.aspect_name, key, value))

\* mutant: the removal replaces the pending operations on the same path
remove_custom_property_collapsing(acc, key) ==
    LET path == <<"/", "customProperties", "/">> \o quote(key.s)
    IN  Ok(CustomPropertiesPatchHelper_remove_property(
               SelectSeq(acc, LAMBDA p : p.path # path),
               custom_properties_patch_helper.aspect_name, key))

remove_custom_property(acc, key) ==
    Ok(CustomPropertiesPatchHelper_remove_property(
           acc, custom_properties_patch_helper.aspect_name, key))

\* mutant: an empty title is skipped silently, as the optional setters do
set_title_optional(acc, title) ==
    IF Truthy(title)
    THEN Ok(_add_patch(acc, ChartInfo_ASPECT_NAME, "add", <<"/", "title">>, title))
    ELSE Ok(acc)

\* mutant: the title is written to the description field
set_title_as_description(acc, title) ==
    IF ~Truthy(title) THEN Raise(acc, "AssertionError")
    ELSE Ok(_add_patch(acc, ChartInfo_ASPECT_NAME, "add", <<"/", "description">>, title))

\* mutant: setting the title starts the accumulator afresh
set_title_resetting(acc, title) ==
    IF ~Truthy(title) THEN Raise(acc, "AssertionError")
    ELSE Ok(_add_patch(<<>>, ChartInfo_ASPECT_NAME, "add", <<"/", "title">>, title))

set_title(acc, title) ==
    IF ~Truthy(title) THEN Raise(acc, "AssertionError")
    ELSE Ok(_add_patch(acc, ChartInfo_ASPECT_NAME, "add", <<"/", "title">>, title))

set_description(acc, description) ==
    IF ~Truthy(description) THEN Raise(acc, "AssertionError")
    ELSE Ok(_add_patch(acc, ChartInfo_ASPECT_NAME, "add", <<"/", "description">>, description))

\* mutant: only None is skipped, so that 0 is appended
set_last_refreshed_not_none(acc, last_refreshed) ==
    IF last_refreshed.t # "None"
    THEN Ok(_add_patch(acc, ChartInfo_ASPECT_NAME, "add", <<"/", "lastRefreshed">>, last_refreshed))
    ELSE Ok(acc)

set_last_refreshed(acc, last_refreshed) ==
    IF Truthy(last_refreshed)
    THEN Ok(_add_patch(acc, ChartInfo_ASPECT_NAME, "add", <<"/", "lastRefreshed">>, last_refreshed))
    ELSE Ok(acc)

set_last_modified(acc, last_modified) ==
    IF Truthy(last_modified)
    THEN Ok(_add_patch(acc, ChartInfo_ASPECT_NAME, "add", <<"/", "lastModified">>, last_modified))
    ELSE Ok(acc)

set_external_url(acc, external_url) ==
    IF Truthy(external_url)
    THEN Ok(_add_patch(acc, ChartInfo_ASPECT_NAME, "add", <<"/", "externalUrl">>, external_url))
    ELSE Ok(acc)

set_chart_url(acc, dashboard_url) ==
    IF Truthy(dashboard_url)
    THEN Ok(_add_patch(acc, ChartInfo_ASPECT_NAME, "add", <<"/", "chartUrl">>, dashboard_url))
    ELSE Ok(acc)

set_type(acc, type) ==
    IF Truthy(type)
    THEN Ok(_add_patch(acc, ChartInfo_ASPECT_NAME, "add", <<"/", "type">>, type))
    ELSE Ok(acc)

set_access(acc, access) ==
    IF Truthy(access)
    THEN Ok(_add_patch(acc, ChartInfo_ASPECT_NAME, "add", <<"/", "access">>, access))
    ELSE Ok(acc)

\* the body of the for loop of add_inputs, over the rest of the list
RECURSIVE add_inputs_loop(_, _)
add_inputs_loop(acc, urns) ==
    IF urns = <<>> THEN acc
    ELSE add_inputs_loop(
             _add_patch(acc, ChartInfo_ASPECT_NAME, "add",
                        <<"/", "inputs", "/">> \o Head(urns).s, Head(urns)),
             Tail(urns))

add_inputs(acc, input_urns) ==
    IF Truthy(input_urns) THEN Ok(add_inputs_loop(acc, input_urns.items)) ELSE Ok(acc)

(* ------------------------- arguments explored ------------------------- *)

CHART_URN == UrnStr("chart", <<"(tool,id1)">>)

ALICE == UrnStr("corpuser", <<"alice">>)

BOB == UrnStr("corpuser", <<"bob">>)

\* a dataset name, and one that holds the path separator
DS_ID == <<"(hive,t1,PROD)">>

DS_SLASH_ID == <<"(s3,bucket", "/", "key,PROD)">>

UrnArgs == {CHART_URN, UrnStr("dataset", DS_ID), ALICE}

OwnerArgs == {Owner(ALICE, <<"DATAOWNER">>)}

RemoveOwnerArgs == {<<PyStr(ALICE), PyNone>>, <<PyStr(ALICE), PyStr(<<"DATAOWNER">>)>>}

OwnersArgs == {PyList(<<>>), PyList(<<Owner(ALICE, <<"DATAOWNER">>)>>)}

\* timestamps the audit-stamp collaborator may mint; callers' own stamps are older
MintTimes == {7, 8}

CALLER_STAMP == AuditStamp(1)

InputEdgeArgs ==
    {Edge(UrnStr("dataset", DS_ID), CALLER_STAMP, CALLER_STAMP),
     Edge(BOB, CALLER_STAMP, CALLER_STAMP),
     UrnObj("dataset", DS_ID), UrnObj("corpuser", <<"bob">>),
     PyStr(UrnStr("dataset", DS_SLASH_ID)), PyStr(BOB),
     PyNone}

RemoveInputEdgeArgs == {PyStr(UrnStr("dataset", DS_SLASH_ID)), UrnObj("dataset", DS_ID)}

InputEdgesArgs ==
    {PyList(<<>>), PyList(<<Edge(UrnStr("dataset", DS_ID), CALLER_STAMP, CALLER_STAMP)>>)}

TagArgs == {Tag(UrnStr("tag", <<"pii">>)), Tag(UrnStr("tag", <<"a", "/", "b">>))}

RemoveTagArgs ==
    {PyStr(<<"pii">>), PyStr(UrnStr("tag", <<"pii">>)), UrnObj("tag", <<"a", "/", "b">>)}

TermArgs ==
    {Term(UrnStr("glossaryTerm", <<"t1">>)), Term(UrnStr("glossaryTerm", <<"x", "~", "y">>))}

RemoveTermArgs ==
    {PyStr(<<"t1">>), PyStr(UrnStr("glossaryTerm", <<"t1">>)),
     UrnObj("glossaryTerm", <<"x", "/", "y">>)}

CustomPropertiesArgs ==
    {PyDict(<<>>), PyDict(<<[key |-> PyStr(<<"k1">>), value |-> PyStr(<<"v">>)]>>)}

KeyArgs == {PyStr(<<"k1">>), PyStr(<<"a", "/", "b", "~", "c">>)}

ValueArgs == {PyStr(<<"v">>)}

TitleArgs == {PyNone, PyStr(<<>>), PyStr(<<"Revenue">>)}

DescriptionArgs == {PyNone, PyStr(<<>>), PyStr(<<"Quarterly">>)}

LastRefreshedArgs == {PyNone, PyInt(0), PyInt(5)}

LastModifiedArgs == {PyNone, ChangeAuditStamps(3)}

UrlArgs == {PyNone, PyStr(<<>>), PyStr(<<"https:", "/", "/", "bi", "/", "c1">>)}

TypeArgs == {PyNone, PyStr(<<>>), PyStr(<<"BAR">>)}

AccessArgs == {PyNone, PyStr(<<"PUBLIC">>)}

InputsArgs ==
    {PyNone, PyList(<<>>), PyList(<<PyStr(UrnStr("dataset", DS_ID))>>),
     PyList(<<PyStr(UrnStr("dataset", DS_ID)), PyStr(UrnStr("dataset", DS_SLASH_ID))>>)}

(* ------------------------------ actions ------------------------------- *)

Init ==
    /\ pc = "none"
    /\ urn = <<>>
    /\ patches = <<>>
    /\ calls = <<>>
    /\ before = <<>>
    /\ raised = "none"
    /\ returned = "nothing"
    /\ lastBuild = PyNone
    /\ prevBuild = PyNone

\* ChartPatchBuilder(u): a builder exists afterwards only if __init__ returned
Construct ==
    \E u \in UrnArgs :
        LET b == ChartPatchBuilder_init(u)
        IN  /\ pc = "none"
            /\ pc' = IF b.live THEN "live" ELSE "failed"
            /\ urn' = b.urn
            /\ patches' = b.patches
            /\ before' = <<>>
            /\ raised' = b.raised
            /\ returned' = "nothing"
            /\ calls' = <<[name |-> "__init__", args |-> <<PyStr(u)>>]>>
            /\ UNCHANGED <<lastBuild, prevBuild>>

\* calls made on the builder since its construction
NCalls == Len(calls) - 1

\* one method call on the live builder, with the outcome res
Invoke(limit, name, args, res) ==
    /\ pc = "live"
    /\ NCalls < limit
    /\ calls' = Append(calls, [name |-> name, args |-> args])
    /\ before' = patches
    /\ patches' = res.patches
    /\ raised' = res.raised
    /\ returned' = res.returned
    /\ UNCHANGED <<pc, urn, lastBuild, prevBuild>>

Build(limit) ==
    /\ pc = "live"
    /\ NCalls < limit
    /\ calls' = Append(calls, [name |-> "build", args |-> <<>>])
    /\ before' = patches
    /\ patches' = patches
    /\ raised' = "none"
    /\ returned' = "request"
    /\ prevBuild' = lastBuild
    /\ lastBuild' = build(urn, patches)
    /\ UNCHANGED <<pc, urn>>

Call_add_owner(limit) ==
    \E o \in OwnerArgs : Invoke(limit, "add_owner", <<o>>, add_owner(patches, o))

Call_remove_owner(limit) ==
    \E a \in RemoveOwnerArgs :
        Invoke(limit, "remove_owner", a, remove_owner(patches, a[1], a[2]))

Call_set_owners(limit) ==
    \E o \in OwnersArgs : Invoke(limit, "set_owners", <<o>>, set_owners(patches, o))

Call_add_input_edge(limit) ==
    \E i \in InputEdgeArgs : \E now1, now2 \in MintTimes :
        Invoke(limit, "add_input_edge", <<i>>, add_input_edge(patches, i, now1, now2))

Call_remove_input_edge(limit) ==
    \E i \in RemoveInputEdgeArgs :
        Invoke(limit, "remove_input_edge", <<i>>, remove_input_edge(patches, i))

Call_set_input_edges(limit) ==
    \E i \in InputEdgesArgs :
        Invoke(limit, "set_input_edges", <<i>>, set_input_edges(patches, i))

Call_add_tag(limit) ==
    \E g \in TagArgs : Invoke(limit, "add_tag", <<g>>, add_tag(patches, g))

Call_remove_tag(limit) ==
    \E g \in RemoveTagArgs : Invoke(limit, "remove_tag", <<g>>, remove_tag(patches, g))

Call_add_term(limit) ==
    \E m \in TermArgs : Invoke(limit, "add_term", <<m>>, add_term(patches, m))

Call_remove_term(limit) ==
    \E m \in RemoveTermArgs : Invoke(limit, "remove_term", <<m>>, remove_term(patches, m))

Call_set_custom_properties(limit) ==
    \E d \in CustomPropertiesArgs :
        Invoke(limit, "set_custom_properties", <<d>>, set_custom_properties(patches, d))

Call_add_custom_property(limit) ==
    \E k \in KeyArgs : \E v \in ValueArgs :
        Invoke(limit, "add_custom_property", <<k, v>>, add_custom_property(patches, k, v))

Call_remove_custom_property(limit) ==
    \E k \in KeyArgs :
        Invoke(limit, "remove_custom_property", <<k>>, remove_custom_property(patches, k))

Call_set_title(limit) ==
    \E v \in TitleArgs : Invoke(limit, "set_title", <<v>>, set_title(patches, v))

Call_set_description(limit) ==
    \E v \in DescriptionArgs :
        Invoke(limit, "set_description", <<v>>, set_description(patches, v))

Call_set_last_refreshed(limit) ==
    \E v \in LastRefreshedArgs :
        Invoke(limit, "set_last_refreshed", <<v>>, set_last_refreshed(patches, v))

Call_set_last_modified(limit) ==
    \E v \in LastModifiedArgs :
        Invoke(limit, "set_last_modified", <<v>>, set_last_modified(patches, v))

Call_set_external_url(limit) ==
    \E v \in UrlArgs : Invoke(limit, "set_external_url", <<v>>, set_external_url(patches, v))

Call_set_chart_url(limit) ==
    \E v \in UrlArgs : Invoke(limit, "set_chart_url", <<v>>, set_chart_url(patches, v))

Call_set_type(limit) ==
    \E v \in TypeArgs : Invoke(limit, "set_type", <<v>>, set_type(patches, v))

Call_set_access(limit) ==
    \E v \in AccessArgs : Invoke(limit, "set_access", <<v>>, set_access(patches, v))

Call_add_inputs(limit) ==
    \E v \in InputsArgs : Invoke(limit, "add_inputs", <<v>>, add_inputs(patches, v))

Next ==
    \/ Construct
    \/ Call_add_owner(MaxCalls)
    \/ Call_remove_owner(MaxCalls)
    \/ Call_set_owners(MaxCalls)
    \/ Call_add_input_edge(MaxCalls)
    \/ Call_remove_input_edge(MaxCalls)
    \/ Call_set_input_edges(MaxCalls)
    \/ Call_add_tag(MaxCalls)
    \/ Call_remove_tag(MaxCalls)
    \/ Call_add_term(MaxCalls)
    \/ Call_remove_term(MaxCalls)
    \/ Call_set_custom_properties(MaxCalls)
    \/ Call_add_custom_property(MaxCalls)
    \/ Call_remove_custom_property(MaxCalls)
    \/ Call_set_title(MaxCalls)
    \/ Call_set_description(MaxCalls)
    \/ Call_set_last_refreshed(MaxCalls)
    \/ Call_set_last_modified(MaxCalls)
    \/ Call_set_external_url(MaxCalls)
    \/ Call_set_chart_url(MaxCalls)
    \/ Call_set_type(MaxCalls)
    \/ Call_set_access(MaxCalls)
    \/ Call_add_inputs(MaxCalls)
    \/ Build(MaxCalls)

Spec == Init /\ [][Next]_vars

\* the calls of the documented scenario, in any order and with any argument
NextScenario ==
    \/ Construct
    \/ Call_set_title(ScenarioCalls)
    \/ Call_add_tag(ScenarioCalls)
    \/ Call_remove_owner(ScenarioCalls)
    \/ Build(ScenarioCalls)

SpecScenario == Init /\ [][NextScenario]_vars

(* ------------------------- reading the state -------------------------- *)

LastCall == calls[Len(calls)]

Called(name) == pc = "live" /\ Len(calls) >= 2 /\ LastCall.name = name

Arg == LastCall.args[1]

PatchOp(aspect_name, op, path, value) ==
    [aspectName |-> aspect_name, op |-> op, path |-> path, value |-> value]

\* the accumulator holds what it held before the last call, and then ops
AppendedExactly(ops) == patches = before \o ops

IsPrefix(s, t) == Len(s) <= Len(t) /\ SubSeq(t, 1, Len(s)) = s

\* the operations of one aspect, in the order of the accumulator
OpsOf(acc, a) ==
    LET sel == SelectSeq(acc, LAMBDA p : p.aspectName = a)
    IN  [i \in 1..Len(sel) |-> [op |-> sel[i].op, path |-> sel[i].path, value |-> sel[i].value]]

\* the operations a materialized batch holds for one aspect
GroupOps(groups, a) ==
    IF \E i \in 1..Len(groups) : groups[i].aspectName = a
    THEN groups[CHOOSE i \in 1..Len(groups) : groups[i].aspectName = a].ops
    ELSE <<>>

\* the operations of a materialized batch, group after group
RECURSIVE Flatten(_)
Flatten(groups) ==
    IF groups = <<>> THEN <<>> ELSE Head(groups).ops \o Flatten(Tail(groups))

(* ------------------------------- claims ------------------------------- *)

\* C1: every call retains what the accumulator held (it only appends);
\* add_custom_property and remove_custom_property append exactly one operation
\* each at /customProperties/quote(key), also when an operation with the same
\* path is already pending; and the batch build() would return holds, for every
\* aspect, exactly the accumulator's operations of that aspect in append order,
\* none of them collapsed.
C1_OrderPreserved ==
    pc = "live" =>
        /\ IsPrefix(before, patches)
        /\ Called("add_custom_property") =>
               AppendedExactly(<<PatchOp("chartInfo", "add",
                   <<"/", "customProperties", "/">> \o quote(Arg.s), LastCall.args[2])>>)
        /\ Called("remove_custom_property") =>
               AppendedExactly(<<PatchOp("chartInfo", "remove",
                   <<"/", "customProperties", "/">> \o quote(Arg.s), PyDict(<<>>))>>)
        /\ LET batch == build(urn, patches).aspectPatches
           IN  /\ \A a \in AspectNames : GroupOps(batch, a) = OpsOf(patches, a)
               /\ \A i, j \in 1..Len(batch) :
                      batch[i].aspectName = batch[j].aspectName => i = j
               /\ Len(Flatten(batch)) = Len(patches)

\* add_custom_property(k1, v) then remove_custom_property(k1): both are held
C1_Witness ==
    /\ Called("remove_custom_property")
    /\ Len(patches) = 2
    /\ patches[1].op = "add"
    /\ patches[2].op = "remove"
    /\ patches[1].path = patches[2].path

ScenarioRun ==
    <<[name |-> "__init__", args |-> <<PyStr(<<"urn:li:", "chart", ":", "(tool,id1)">>)>>],
      [name |-> "set_title", args |-> <<PyStr(<<"Revenue">>)>>],
      [name |-> "add_tag", args |-> <<Tag(<<"urn:li:", "tag", ":", "pii">>)>>],
      [name |-> "remove_owner",
       args |-> <<PyStr(<<"urn:li:", "corpuser", ":", "alice">>), PyNone>>],
      [name |-> "build", args |-> <<>>]>>

\* C2: after ChartPatchBuilder("urn:li:chart:(tool,id1)"), set_title("Revenue"),
\* add_tag(Tag("urn:li:tag:pii")), remove_owner("urn:li:corpuser:alice"), build()
\* returns a request for that entity with exactly three operations, in this
\* order: add /title = "Revenue", add /tags/urn:li:tag:pii, remove
\* /owners/urn:li:corpuser:alice, one aspect after the other.
C2_Scenario ==
    calls = ScenarioRun =>
        /\ lastBuild.entityId = <<"urn:li:", "chart", ":", "(tool,id1)">>
        /\ Flatten(lastBuild.aspectPatches) =
               << [op |-> "add", path |-> <<"/", "title">>, value |-> PyStr(<<"Revenue">>)],
                  [op |-> "add", path |-> <<"/", "tags", "/", "urn:li:", "tag", ":", "pii">>,
                   value |-> Tag(<<"urn:li:", "tag", ":", "pii">>)],
                  [op |-> "remove",
                   path |-> <<"/", "owners", "/", "urn:li:", "corpuser", ":", "alice">>,
                   value |-> PyDict(<<>>)] >>
        /\ [i \in 1..Len(lastBuild.aspectPatches) |-> lastBuild.aspectPatches[i].aspectName]
               = <<"chartInfo", "globalTags", "ownership">>

C2_Witness == calls = ScenarioRun /\ lastBuild # PyNone /\ Len(patches) = 3

EmptyValue(v) == v = PyNone \/ v = PyStr(<<>>) \/ v = PyInt(0)

RequiredSetter(name, field) ==
    Called(name) =>
        IF EmptyValue(Arg)
        THEN raised = "AssertionError" /\ returned = "nothing" /\ patches = before
        ELSE /\ raised = "none"
             /\ AppendedExactly(<<PatchOp("chartInfo", "add", <<"/", field>>, Arg)>>)

\* C3: set_title and set_description with an empty string or None fail at the
\* call (the required-field assertion) and leave the accumulator as it was; with
\* a non-empty value they append exactly one add at /title (/description)
\* carrying the value.
C3_RequiredSetters ==
    /\ RequiredSetter("set_title", "title")
    /\ RequiredSetter("set_description", "description")

\* set_title("") on a builder that already holds an operation
C3_Witness ==
    /\ Called("set_title")
    /\ Arg = PyStr(<<>>)
    /\ raised = "AssertionError"
    /\ before # <<>>

\* the destination identifier of the argument of add_input_edge
Destination(input) == IF input.t = "Edge" THEN input.destinationUrn ELSE str(input)

\* C4: add_input_edge with an Edge, Urn or string whose destination is not a
\* dataset identifier fails with InvalidUrnTypeError and the accumulator is what
\* it was before the call.
C4_InputEdgeTypeChecked ==
    (/\ Called("add_input_edge")
     /\ Arg.t \in {"Edge", "Urn", "str"}
     /\ typeQualifier(Destination(Arg)) # "dataset")
        => /\ raised = "InvalidUrnTypeError"
           /\ returned = "nothing"
           /\ patches = before

\* add_input_edge("urn:li:corpuser:bob") on a builder that holds an operation
C4_Witness ==
    /\ Called("add_input_edge")
    /\ Arg = PyStr(<<"urn:li:", "corpuser", ":", "bob">>)
    /\ raised = "InvalidUrnTypeError"
    /\ before # <<>>

\* C5: a successful add_input_edge appends exactly one add at
\* /inputEdges/quote(destination) whose value is the edge: the Edge given, or
\* for a Urn or string an edge to it with minted created/lastModified stamps.
C5_EdgeValue ==
    (Called("add_input_edge") /\ raised = "none") =>
        \E now1, now2 \in MintTimes :
            AppendedExactly(<<PatchOp("chartInfo", "add",
                <<"/", "inputEdges", "/">> \o quote(Destination(Arg)),
                IF Arg.t = "Edge" THEN Arg
                ELSE Edge(Destination(Arg), AuditStamp(now1), AuditStamp(now2)))>>)

\* the earlier request is kept by the later one: same entity, the same aspects
\* in the same places, each with the earlier operations first
Extends(earlier, later) ==
    /\ later.entityId = earlier.entityId
    /\ Len(earlier.aspectPatches) <= Len(later.aspectPatches)
    /\ \A i \in 1..Len(earlier.aspectPatches) :
           /\ later.aspectPatches[i].aspectName = earlier.aspectPatches[i].aspectName
           /\ IsPrefix(earlier.aspectPatches[i].ops, later.aspectPatches[i].ops)

WholesaleSetter(name, aspect_name, field) ==
    Called(name) =>
        /\ raised = "none"
        /\ AppendedExactly(<<PatchOp(aspect_name, "add", <<"/", field>>, Arg)>>)
        /\ before = <<>> =>
               Flatten(build(urn, patches).aspectPatches)
                   = <<[op |-> "add", path |-> <<"/", field>>, value |-> Arg]>>

\* C7: set_owners, set_input_edges and set_custom_properties append exactly one
\* add at the bare field path whose value is the whole collection, the empty
\* collection included; on a fresh builder build() then holds that one operation.
C7_WholesaleReplacement ==
    /\ WholesaleSetter("set_owners", "ownership", "owners")
    /\ WholesaleSetter("set_input_edges", "chartInfo", "inputEdges")
    /\ WholesaleSetter("set_custom_properties", "chartInfo", "customProperties")

\* set_input_edges([]) appended its one operation
C7_Witness ==
    /\ Called("set_input_edges")
    /\ Arg = PyList(<<>>)
    /\ Len(patches) = Len(before) + 1

OptionalSetter(name, field) ==
    Called(name) =>
        /\ raised = "none"
        /\ returned = "self"
        /\ IF EmptyValue(Arg)
           THEN patches = before
           ELSE AppendedExactly(<<PatchOp("chartInfo", "add", <<"/", field>>, Arg)>>)

\* C8: each optional scalar setter raises nothing and returns the builder; with
\* None, "" or 0 it leaves the accumulator unchanged, otherwise it appends
\* exactly one add on chartInfo at its own field path with the value.
C8_OptionalSetters ==
    /\ OptionalSetter("set_last_refreshed", "lastRefreshed")
    /\ OptionalSetter("set_last_modified", "lastModified")
    /\ OptionalSetter("set_external_url", "externalUrl")
    /\ OptionalSetter("set_chart_url", "chartUrl")
    /\ OptionalSetter("set_type", "type")
    /\ OptionalSetter("set_access", "access")

\* set_last_refreshed(0) on a builder that holds an operation: nothing appended
C8_Witness ==
    /\ Called("set_last_refreshed")
    /\ Arg = PyInt(0)
    /\ patches = before
    /\ before # <<>>

\* the identifier the constructor was called with
CtorUrn == calls[1].args[1].s

KeyOf(call) ==
    LET a == call.args[1]
    IN  CASE call.name = "add_tag" -> a.tag
          [] call.name = "remove_tag" ->
                 IF a.t = "str" /\ ~startswith(a.s, <<"urn:li:", "tag", ":">>)
                 THEN <<"urn:li:", "tag", ":">> \o a.s ELSE str(a)
          [] call.name = "add_term" -> a.urn
          [] call.name = "remove_term" ->
                 IF a.t = "str" /\ ~startswith(a.s, <<"urn:li:", "glossaryTerm", ":">>)
                 THEN <<"urn:li:", "glossaryTerm", ":">> \o a.s ELSE str(a)
          [] call.name = "add_input_edge" -> Destination(a)
          [] call.name = "remove_input_edge" -> str(a)

FieldOf(name) ==
    CASE name \in {"add_tag", "remove_tag"} -> "tags"
      [] name \in {"add_term", "remove_term"} -> "terms"
      [] name \in {"add_input_edge", "remove_input_edge"} -> "inputEdges"

\* C10: the path of every operation appended by add_tag, remove_tag, add_term,
\* remove_term, add_input_edge, remove_input_edge and add_inputs is /field/
\* followed by the codec-quoted key, never the raw key.
C10_KeysQuoted ==
    /\ \A name \in {"add_tag", "remove_tag", "add_term", "remove_term",
                    "add_input_edge", "remove_input_edge"} :
           (Called(name) /\ raised = "none") =>
               /\ Len(patches) = Len(before) + 1
               /\ patches[Len(patches)].path
                      = <<"/", FieldOf(name), "/">> \o quote(KeyOf(LastCall))
    /\ (Called("add_inputs") /\ Truthy(Arg)) =>
           /\ Len(patches) = Len(before) + Len(Arg.items)
           /\ \A i \in 1..Len(Arg.items) :
                  patches[Len(before) + i].path
                      = <<"/", "inputs", "/">> \o quote(Arg.items[i].s)

====
